---- MODULE Spec2Model ----
(***************************************************************************)
(* Model of the KaguOS two-pass assembler (src/asm.py).                    *)
(*                                                                         *)
(* The assembler is a straight-line script over module-level globals.      *)
(* The variables below are those globals; every action is one stretch of   *)
(* the script: reading one source line (Pass 1), the Address Allocator,    *)
(* one iteration of the Pass 2 loop, the code after the loop, and the      *)
(* Image Writer.  Tokens and lexemes are strings, as in the script.        *)
(* A source line is given as the list of words shlex.split produces from   *)
(* it after the trailing comment has been cut off; a word that opens a     *)
(* quote and never closes it makes shlex.split raise ValueError.           *)
(* The text of diagnostics (stderr) is not modelled, only their count.     *)
(***************************************************************************)
EXTENDS Integers, Sequences, FiniteSets, TLC

VARIABLES src, lineno, pc, exit_status, image,
          COMPILATION_ERROR_COUNT,
          LABELS, LABELS_ADDRESSES,
          CONSTANTS_, CONSTANTS_EVALUATED, CONSTANTS_ADDRESSES,
          VARIABLES_, VARIABLES_ADDRESSES, VARIABLES_DECL_ADDRESSES,
          PARSED_LEXEMES, NEXT_INSTR_ADDRESS,
          cmd, count, lexemes, output, LEXEME_INDEX, CUR_INSTRUCTION_NO,
          CUR_FILE, CUR_LINE_NO

vars == <<src, lineno, pc, exit_status, image,
          COMPILATION_ERROR_COUNT,
          LABELS, LABELS_ADDRESSES,
          CONSTANTS_, CONSTANTS_EVALUATED, CONSTANTS_ADDRESSES,
          VARIABLES_, VARIABLES_ADDRESSES, VARIABLES_DECL_ADDRESSES,
          PARSED_LEXEMES, NEXT_INSTR_ADDRESS,
          cmd, count, lexemes, output, LEXEME_INDEX, CUR_INSTRUCTION_NO,
          CUR_FILE, CUR_LINE_NO>>

(***************************************************************************)
(* Bounds of the model.                                                    *)
(***************************************************************************)
MaxLines == 3

MaxRepeat == 12

(***************************************************************************)
(* Program constants.                                                      *)
(***************************************************************************)
KERNEL_START == 41

USER_SPACE == 0

FIRST_INSTRUCTION_NO == IF USER_SPACE # 0 THEN 17 ELSE KERNEL_START

DEBUG_INFO == 1

ERROR_LIMIT == 20

INSTR_COPY_FROM_TO_ADDRESS == "1"

INSTR_JUMP == "3"

INSTR_JUMP_IF == "4"

INSTR_JUMP_IF_NOT == "5"

INSTR_JUMP_ERR == "6"

INSTR_CPU_EXEC == "0"

CMDS_ARRAY == {"write", "copy", "label", "jump", "jump_if", "jump_if_not",
               "jump_err", "cpu_exec", "var", "DEBUG_ON", "DEBUG_OFF"}

\* The symbol table read from include/*.sh: name -> value
SYMBOL_TABLE == [n \in {"OP_ADD", "REG_A"} |-> IF n = "OP_ADD" THEN "2" ELSE "7"]

\* Python's None, the unbound name `count`, and the absent image file
None == "<None>"

Unbound == -1

NoFile == <<"<no file>">>

(***************************************************************************)
(* String helpers: the str methods and regular expressions the script uses *)
(***************************************************************************)
Digits == {"0", "1", "2", "3", "4", "5", "6", "7", "8", "9"}

Letters == {"a", "b", "c", "d", "e", "f", "g", "h", "i", "j", "k", "l", "m",
            "n", "o", "p", "q", "r", "s", "t", "u", "v", "w", "x", "y", "z",
            "A", "B", "C", "D", "E", "F", "G", "H", "I", "J", "K", "L", "M",
            "N", "O", "P", "Q", "R", "S", "T", "U", "V", "W", "X", "Y", "Z"}

Quote == "\""

CharAt(s, i) == SubSeq(s, i, i)

StartsWith(s, p) == Len(s) >= Len(p) /\ SubSeq(s, 1, Len(p)) = p

EndsWith(s, p) == Len(s) >= Len(p) /\ SubSeq(s, Len(s) - Len(p) + 1, Len(s)) = p

\* s[n:]
Drop(s, n) == SubSeq(s, n + 1, Len(s))

\* re.match(r"^[0-9]+$", s)
IsNumber(s) == Len(s) >= 1 /\ \A i \in 1..Len(s) : CharAt(s, i) \in Digits

\* re.match(r"^[a-zA-Z][a-zA-Z0-9_]*$", s)
IsIdentifier(s) ==
    /\ Len(s) >= 1
    /\ CharAt(s, 1) \in Letters
    /\ \A i \in 2..Len(s) : CharAt(s, i) \in Letters \cup Digits \cup {"_"}

\* re.match(r"^[a-zA-Z_][a-zA-Z0-9_]*$", s)
IsBareName(s) ==
    /\ Len(s) >= 1
    /\ \A i \in 1..Len(s) : CharAt(s, i) \in Letters \cup Digits \cup {"_"}
    /\ CharAt(s, 1) \notin Digits

RECURSIVE LStrip(_, _)
LStrip(s, c) == IF Len(s) >= 1 /\ CharAt(s, 1) = c THEN LStrip(Drop(s, 1), c) ELSE s

RECURSIVE RStrip(_, _)
RStrip(s, c) ==
    IF Len(s) >= 1 /\ CharAt(s, Len(s)) = c THEN RStrip(SubSeq(s, 1, Len(s) - 1), c) ELSE s

\* s.strip(c)
Strip(s, c) == RStrip(LStrip(s, c), c)

\* position of the first occurrence of character c in s, 0 when absent
RECURSIVE IndexOfChar(_, _, _)
IndexOfChar(s, c, i) ==
    IF i > Len(s) THEN 0
    ELSE IF CharAt(s, i) = c THEN i ELSE IndexOfChar(s, c, i + 1)

\* sep.join(parts)
RECURSIVE Join(_, _)
Join(parts, sep) ==
    IF parts = <<>> THEN ""
    ELSE IF Len(parts) = 1 THEN parts[1]
    ELSE parts[1] \o sep \o Join(Tail(parts), sep)

\* f"{s:<n}"
RECURSIVE PadRight(_, _)
PadRight(s, n) == IF Len(s) >= n THEN s ELSE PadRight(s \o " ", n)

\* value in array
In(value, array) == \E i \in 1..Len(array) : array[i] = value

\* find_index: Python's 0-based index of the first occurrence, -1 when absent
find_index(value, array) ==
    IF In(value, array)
    THEN (CHOOSE i \in 1..Len(array) :
              array[i] = value /\ \A j \in 1..(i - 1) : array[j] # value) - 1
    ELSE -1

is_command(word) == word \in CMDS_ARRAY

(***************************************************************************)
(* Lexical Classifier                                                      *)
(***************************************************************************)
RegisterNames == {"DISPLAY_BUFFER", "DISPLAY_COLOR", "DISPLAY_BACKGROUND",
                  "KEYBOARD_BUFFER", "PROGRAM_COUNTER"}

KeyboardModes == {"KEYBOARD_READ_LINE", "KEYBOARD_READ_LINE_SILENTLY",
                  "KEYBOARD_READ_CHAR", "KEYBOARD_READ_CHAR_SILENTLY"}

\* parse_lexeme after the addressing prefix has been split off
parse_body(prefix, lex) ==
    IF StartsWith(lex, Quote) /\ EndsWith(lex, Quote)
    THEN prefix \o " str " \o SubSeq(lex, 2, Len(lex) - 1)
    ELSE IF lex = "to" THEN prefix \o " kto =>"
    ELSE IF IsNumber(lex) THEN prefix \o " num " \o lex
    ELSE IF StartsWith(lex, "var:")
    THEN IF IsIdentifier(Drop(lex, 4)) THEN prefix \o " var " \o Drop(lex, 4)
         ELSE prefix \o " err name_format " \o lex
    ELSE IF StartsWith(lex, "label:")
    THEN IF IsIdentifier(Drop(lex, 6)) THEN prefix \o " lbl " \o Drop(lex, 6)
         ELSE prefix \o " err name_format " \o lex
    ELSE IF StartsWith(lex, "OP_") THEN prefix \o " opr " \o lex
    ELSE IF StartsWith(lex, "SYS_CALL_") THEN prefix \o " sys " \o lex
    ELSE IF \/ StartsWith(lex, "REG_") \/ StartsWith(lex, "INFO_")
            \/ lex \in RegisterNames \/ StartsWith(lex, "FREE_")
    THEN prefix \o " reg " \o lex
    ELSE IF StartsWith(lex, "COLOR_") THEN prefix \o " clr " \o lex
    ELSE IF lex \in KeyboardModes THEN prefix \o " mod " \o lex
    ELSE IF is_command(lex) THEN prefix \o " cmd " \o lex
    ELSE IF IsBareName(lex) THEN prefix \o " nam " \o lex
    ELSE prefix \o " err unknown " \o lex

parse_lexeme(lex) ==
    IF lex = "" \/ StartsWith(lex, "//") THEN "_ cmt"
    ELSE IF CharAt(lex, 1) \in {"@", "*"} THEN parse_body(CharAt(lex, 1), Drop(lex, 1))
    ELSE parse_body("_", lex)

(***************************************************************************)
(* Command rules.  `pattern` lists, per position, the permitted            *)
(* "prefix kind" tags of the rule's regular expression; `optcmt` says      *)
(* whether the closing "_ cmt" is optional.  The no-operand commands have  *)
(* no pattern.  The script reads only `count` from a rule.                 *)
(***************************************************************************)
AddressTags == {"_ num", "* num", "@ num", "_ reg", "* reg", "@ reg",
                "_ var", "* var", "@ var"}

JumpTags == {"_ num", "* num", "@ num", "_ reg", "* reg", "@ reg",
             "_ lbl", "* lbl", "_ var", "* var", "@ var"}

WriteValueTags == {"_ str", "_ num", "_ opr", "_ sys", "_ clr", "_ mod", "_ lbl"}

INSTRUCTION_RULES(c) ==
    CASE c = "write" -> [count |-> 4, optcmt |-> FALSE,
                         pattern |-> <<{"_ cmd"}, WriteValueTags, {"_ kto"}, AddressTags>>]
      [] c = "copy" -> [count |-> 4, optcmt |-> FALSE,
                        pattern |-> <<{"_ cmd"}, AddressTags, {"_ kto"}, AddressTags>>]
      [] c \in {"label", "var"} -> [count |-> 2, optcmt |-> TRUE,
                                    pattern |-> <<{"_ cmd"}, {"_ nam"}>>]
      [] c \in {"jump", "jump_if", "jump_if_not", "jump_err"} ->
                       [count |-> 2, optcmt |-> FALSE,
                        pattern |-> <<{"_ cmd"}, JumpTags>>]
      [] c \in {"cpu_exec", "DEBUG_ON", "DEBUG_OFF"} ->
                       [count |-> 1, optcmt |-> FALSE, pattern |-> <<>>]
      [] OTHER -> [count |-> 0, optcmt |-> FALSE, pattern |-> <<>>]

\* lexeme count Pass 1 takes for a command (rule lookup, then the overrides)
lexeme_count(c) ==
    IF c \in {"var", "label"} THEN 2
    ELSE IF c \in {"cpu_exec", "DEBUG_ON", "DEBUG_OFF"} THEN 1
    ELSE INSTRUCTION_RULES(c).count

(***************************************************************************)
(* Diagnostic Reporter                                                     *)
(***************************************************************************)
\* compilation_error with the threshold test one too high
compilation_error_late(errors) ==
    [count |-> errors + 1, exit |-> errors + 1 > ERROR_LIMIT + 1]

\* compilation_error: the counter after the report, and whether it exits
compilation_error(errors) ==
    [count |-> errors + 1, exit |-> errors + 1 > ERROR_LIMIT]

(***************************************************************************)
(* Declaration Scanner (Pass 1)                                            *)
(*                                                                         *)
(* The handler of one line is a chain of steps over a record of the        *)
(* globals it touches: L, LA = LABELS, LABELS_ADDRESSES; V, VDA =          *)
(* VARIABLES, VARIABLES_DECL_ADDRESSES; C, CE = CONSTANTS,                 *)
(* CONSTANTS_EVALUATED; PL = PARSED_LEXEMES; N = NEXT_INSTR_ADDRESS;       *)
(* E = COMPILATION_ERROR_COUNT.  halt is "no" while the handler runs on,   *)
(* "continue" once the line is dropped, "exit" once sys.exit was called.   *)
(***************************************************************************)
\* shlex.split(line, posix=False) raises ValueError: a quote is never closed
shlex_fails(words) ==
    \E i \in 1..Len(words) :
        StartsWith(words[i], Quote) /\ ~(Len(words[i]) >= 2 /\ EndsWith(words[i], Quote))

\* a call of compilation_error inside the handler; `after` is what the
\* handler does next when the call returns
Report(st, after) ==
    LET r == compilation_error(st.E)
    IN  [st EXCEPT !.E = r.count, !.halt = IF r.exit THEN "exit" ELSE after]

\* a declaration that records the name again when it is already declared
declare_again(names, addresses, name, address) ==
    [names |-> Append(names, name), addresses |-> Append(addresses, address),
     duplicate |-> In(name, names)]

\* the membership test and the two appends of a `var` / `label` declaration
declare(names, addresses, name, address) ==
    IF In(name, names)
    THEN [names |-> names, addresses |-> addresses, duplicate |-> TRUE]
    ELSE [names |-> Append(names, name), addresses |-> Append(addresses, address),
          duplicate |-> FALSE]

\* lines 132-154
scan_declaration(st, tokens) ==
    IF tokens[1] = "var" /\ Len(tokens) >= 2
    THEN LET d == declare(st.V, st.VDA, tokens[2], st.N)
             s1 == [st EXCEPT !.V = d.names, !.VDA = d.addresses]
         IN  IF d.duplicate THEN Report(s1, "no") ELSE s1
    ELSE IF tokens[1] = "label" /\ Len(tokens) >= 2
    THEN LET d == declare(st.L, st.LA, tokens[2], st.N)
             s1 == [st EXCEPT !.L = d.names, !.LA = d.addresses]
         IN  IF d.duplicate THEN Report(s1, "no") ELSE s1
    ELSE st

\* lines 165-166: a `write` payload that does not open a quote is wrapped
quote_write_value(tokens) ==
    IF tokens[1] = "write" /\ Len(tokens) > 1 /\ ~StartsWith(tokens[2], Quote)
    THEN [tokens EXCEPT ![2] = Quote \o tokens[2] \o Quote]
    ELSE tokens

\* lines 172-174
classify(tokens) ==
    Append([i \in 1..lexeme_count(tokens[1]) |-> parse_lexeme(tokens[i])], "_ cmt")

\* lines 190-208: enter const into the pool unless it is there already
pool_constant(st, const) ==
    IF In(const, st.C) THEN st
    ELSE LET s1 == [st EXCEPT !.C = Append(st.C, const)]
         IN  IF StartsWith(const, Quote)
             THEN [s1 EXCEPT !.CE = Append(s1.CE, Strip(const, Quote))]
             ELSE IF StartsWith(const, "LABEL:")
             THEN LET idx == find_index(Drop(const, 6), s1.L)
                  IN  IF idx = -1
                      THEN LET s2 == Report(s1, "no")
                           IN  IF s2.halt = "exit" THEN s2
                               ELSE [s2 EXCEPT !.CE = Append(s2.CE, "0")]
                      ELSE [s1 EXCEPT !.CE = Append(s1.CE, ToString(s1.LA[idx + 1]))]
             ELSE IF const \in DOMAIN SYMBOL_TABLE
             THEN [s1 EXCEPT !.CE = Append(s1.CE, SYMBOL_TABLE[const])]
             ELSE IF IsNumber(const)
             THEN [s1 EXCEPT !.CE = Append(s1.CE, const)]
             ELSE LET s2 == Report(s1, "no")
                  IN  IF s2.halt = "exit" THEN s2
                      ELSE [s2 EXCEPT !.CE = Append(s2.CE, "0")]

\* lines 177-208
scan_write(st, tokens) ==
    IF tokens[1] = "write" /\ Len(tokens) > 1
    THEN LET val_token == tokens[2]
         IN  IF StartsWith(val_token, Quote) /\ EndsWith(val_token, Quote)
             THEN pool_constant(st, val_token)
             ELSE IF StartsWith(val_token, "label:")
             THEN IF ~In(Drop(val_token, 6), st.L)
                  THEN Report(st, "continue")
                  ELSE pool_constant(st, "LABEL:" \o Drop(val_token, 6))
             ELSE pool_constant(st, val_token)
    ELSE st

\* lines 210-211
append_instruction(st, parsed) ==
    [st EXCEPT !.PL = st.PL \o parsed, !.N = st.N + 1]

\* lines 121-211: the body of the loop for one non-empty line
scan_line(st0, words, no) ==
    LET st1 == [st0 EXCEPT !.PL = Append(st0.PL, "line " \o ToString(no))]
    IN  IF shlex_fails(words) THEN Report(st1, "continue")
        ELSE LET st2 == scan_declaration(st1, words)
                 tokens == quote_write_value(words)
             IN  IF st2.halt # "no" THEN st2
                 ELSE IF Len(tokens) < lexeme_count(tokens[1])
                 THEN Report(st2, "continue")
                 ELSE LET st3 == scan_write(st2, tokens)
                      IN  IF st3.halt # "no" THEN st3
                          ELSE append_instruction(st3, classify(tokens))

Globals ==
    [L |-> LABELS, LA |-> LABELS_ADDRESSES, V |-> VARIABLES_,
     VDA |-> VARIABLES_DECL_ADDRESSES, C |-> CONSTANTS_, CE |-> CONSTANTS_EVALUATED,
     PL |-> PARSED_LEXEMES, N |-> NEXT_INSTR_ADDRESS, E |-> COMPILATION_ERROR_COUNT,
     halt |-> "no"]

Pass2Unchanged ==
    UNCHANGED <<count, lexemes, output, LEXEME_INDEX, CUR_INSTRUCTION_NO,
                CUR_FILE, CUR_LINE_NO, CONSTANTS_ADDRESSES, VARIABLES_ADDRESSES, image>>

\* line 116: the source file is opened
OpenFile ==
    /\ pc = "start"
    /\ PARSED_LEXEMES' = Append(PARSED_LEXEMES, "file prog.asm")
    /\ pc' = "pass1"
    /\ UNCHANGED <<src, lineno, exit_status, COMPILATION_ERROR_COUNT, LABELS,
                   LABELS_ADDRESSES, CONSTANTS_, CONSTANTS_EVALUATED, VARIABLES_,
                   VARIABLES_DECL_ADDRESSES, NEXT_INSTR_ADDRESS, cmd>>
    /\ Pass2Unchanged

\* lines 117-211: one line of the source file
ScanLine ==
    /\ pc = "pass1"
    /\ src # <<>>
    /\ LET words == Head(src)
           st == IF words = <<>> THEN Globals
                 ELSE scan_line(Globals, words, lineno + 1)
       IN  /\ src' = Tail(src)
           /\ lineno' = lineno + 1
           /\ cmd' = IF words = <<>> \/ shlex_fails(words) THEN cmd ELSE words[1]
           /\ LABELS' = st.L
           /\ LABELS_ADDRESSES' = st.LA
           /\ VARIABLES_' = st.V
           /\ VARIABLES_DECL_ADDRESSES' = st.VDA
           /\ CONSTANTS_' = st.C
           /\ CONSTANTS_EVALUATED' = st.CE
           /\ PARSED_LEXEMES' = st.PL
           /\ NEXT_INSTR_ADDRESS' = st.N
           /\ COMPILATION_ERROR_COUNT' = st.E
           /\ pc' = IF st.halt = "exit" THEN "aborted" ELSE "pass1"
           /\ exit_status' = IF st.halt = "exit" THEN 1 ELSE exit_status
    /\ Pass2Unchanged

(***************************************************************************)
(* Address Allocator                                                       *)
(***************************************************************************)
\* an allocation that starts one address early
allocate_early(first, n) == [i \in 1..n |-> first + i - 2]

\* n consecutive addresses from `first` on (the loops of lines 213-218)
allocate(first, n) == [i \in 1..n |-> first + i - 1]

\* lines 213-223 and 316-317: runs when the loop over the source lines ends
Allocate ==
    /\ pc = "pass1"
    /\ src = <<>>
    /\ CONSTANTS_ADDRESSES' = allocate(NEXT_INSTR_ADDRESS, Len(CONSTANTS_))
    /\ VARIABLES_ADDRESSES' =
           allocate(NEXT_INSTR_ADDRESS + Len(CONSTANTS_), Len(VARIABLES_))
    /\ NEXT_INSTR_ADDRESS' = NEXT_INSTR_ADDRESS + Len(CONSTANTS_) + Len(VARIABLES_)
    /\ image' = NoFile
    /\ output' = <<>>
    /\ LEXEME_INDEX' = -1
    /\ CUR_INSTRUCTION_NO' = FIRST_INSTRUCTION_NO - 1
    /\ CUR_FILE' = ""
    /\ CUR_LINE_NO' = ""
    /\ pc' = "pass2"
    /\ UNCHANGED <<src, lineno, exit_status, COMPILATION_ERROR_COUNT, LABELS,
                   LABELS_ADDRESSES, CONSTANTS_, CONSTANTS_EVALUATED, VARIABLES_,
                   VARIABLES_DECL_ADDRESSES, PARSED_LEXEMES, cmd, count, lexemes>>

(***************************************************************************)
(* Resolution & Emission Engine (Pass 2)                                   *)
(***************************************************************************)
\* get_next_lexeme: the advanced index and the lexeme there, or None
get_next_lexeme(index) ==
    [index |-> index + 1,
     lex |-> IF index + 1 < Len(PARSED_LEXEMES) THEN PARSED_LEXEMES[index + 2] ELSE None]

LexemeKinds == {"cmd", "str", "num", "opr", "sys", "clr", "mod", "lbl", "reg",
                "var", "nam", "kto", "err"}

\* re.match(r"^[@\*_] (cmd|str|...|err)", lex)
valid_lexeme(lex) ==
    /\ Len(lex) >= 5
    /\ CharAt(lex, 1) \in {"@", "*", "_"}
    /\ CharAt(lex, 2) = " "
    /\ SubSeq(lex, 3, 5) \in LexemeKinds

\* lines 334-346: operand count of a command in Pass 2, Unbound for the else branch
operand_count(c) ==
    IF c \in {"write", "copy"} THEN 4
    ELSE IF c \in {"jump", "jump_if", "jump_if_not", "jump_err"} THEN 2
    ELSE IF c \in {"label", "var"} THEN 1
    ELSE IF c \in {"cpu_exec", "DEBUG_ON", "DEBUG_OFF"} THEN 0
    ELSE Unbound

\* lines 348-369: the for loop that gathers the operands of one command
RECURSIVE read_operands(_, _, _, _)
read_operands(index, n, acc, errors) ==
    IF n = 0 THEN [index |-> index, lexemes |-> acc, errors |-> errors, exit |-> FALSE]
    ELSE LET g == get_next_lexeme(index)
         IN  IF g.lex = None
             THEN LET r == compilation_error(errors)
                  IN  [index |-> g.index, lexemes |-> <<>>, errors |-> r.count,
                       exit |-> r.exit]
             ELSE IF Strip(g.lex, " ") = "_ cmt"
             THEN read_operands(g.index, n - 1, acc, errors)
             ELSE IF ~valid_lexeme(g.lex)
             THEN LET r == compilation_error(errors)
                  IN  [index |-> g.index, lexemes |-> <<>>, errors |-> r.count,
                       exit |-> r.exit]
             ELSE read_operands(g.index, n - 1, Append(acc, g.lex), errors)

\* what one iteration of the while loop (lines 319-369) does with its lexeme
pass2_iteration(g) ==
    LET same == [index |-> g.index, lexemes |-> lexemes,
                 errors |-> COMPILATION_ERROR_COUNT, exit |-> FALSE,
                 cmd |-> cmd, count |-> count, file |-> CUR_FILE, line |-> CUR_LINE_NO,
                 break |-> FALSE]
    IN  IF g.lex = None \/ g.lex = "" THEN [same EXCEPT !.break = TRUE]
        ELSE IF StartsWith(g.lex, "file ") THEN [same EXCEPT !.file = Drop(g.lex, 5)]
        ELSE IF StartsWith(g.lex, "line ") THEN [same EXCEPT !.line = Drop(g.lex, 5)]
        ELSE IF ~StartsWith(g.lex, "_ cmd ") THEN same
        ELSE LET c == Drop(g.lex, 6)
             IN  IF operand_count(c) = Unbound
                 THEN LET r == compilation_error(COMPILATION_ERROR_COUNT)
                      IN  [same EXCEPT !.cmd = c, !.errors = r.count, !.exit = r.exit]
                 ELSE LET o == read_operands(g.index, operand_count(c), <<>>,
                                             COMPILATION_ERROR_COUNT)
                      IN  [same EXCEPT !.cmd = c, !.count = operand_count(c),
                                       !.index = o.index, !.lexemes = o.lexemes,
                                       !.errors = o.errors, !.exit = o.exit]

Pass1Unchanged ==
    UNCHANGED <<src, lineno, LABELS, LABELS_ADDRESSES, CONSTANTS_, CONSTANTS_EVALUATED,
                CONSTANTS_ADDRESSES, VARIABLES_, VARIABLES_ADDRESSES,
                VARIABLES_DECL_ADDRESSES, PARSED_LEXEMES, NEXT_INSTR_ADDRESS>>

\* lines 319-369: one iteration of the while loop
Pass2Step ==
    /\ pc = "pass2"
    /\ LET r == pass2_iteration(get_next_lexeme(LEXEME_INDEX))
       IN  /\ LEXEME_INDEX' = r.index
           /\ lexemes' = r.lexemes
           /\ COMPILATION_ERROR_COUNT' = r.errors
           /\ cmd' = r.cmd
           /\ count' = r.count
           /\ CUR_FILE' = r.file
           /\ CUR_LINE_NO' = r.line
           /\ pc' = IF r.exit THEN "aborted" ELSE IF r.break THEN "post" ELSE "pass2"
           /\ exit_status' = IF r.exit THEN 1 ELSE exit_status
    /\ UNCHANGED <<output, CUR_INSTRUCTION_NO, image>>
    /\ Pass1Unchanged

\* array[i] for a Python index i: negative indices count from the end, and
\* an index outside the list raises IndexError
py_index(array, i) ==
    LET k == IF i < 0 THEN Len(array) + i + 1 ELSE i + 1
    IN  IF k \in 1..Len(array) THEN [val |-> ToString(array[k]), raised |-> FALSE]
        ELSE [val |-> "0", raised |-> TRUE]

Opcode(v) ==
    CASE v \in {"copy", "write"} -> INSTR_COPY_FROM_TO_ADDRESS
      [] v = "jump" -> INSTR_JUMP
      [] v = "jump_if" -> INSTR_JUMP_IF
      [] v = "jump_if_not" -> INSTR_JUMP_IF_NOT
      [] v = "jump_err" -> INSTR_JUMP_ERR
      [] v = "cpu_exec" -> INSTR_CPU_EXEC
      [] v \in {"DEBUG_ON", "DEBUG_OFF"} -> v
      [] OTHER -> ""

\* eval_lexeme: the resolved text, whether a diagnostic was reported, and
\* whether the lookup raised
eval_lexeme(lex, pos) ==
    LET ok(val) == [val |-> val, err |-> FALSE, raised |-> FALSE]
        bad == [val |-> "0", err |-> TRUE, raised |-> FALSE]
    IN  IF lex = None THEN bad
        ELSE
        LET p == IF CharAt(lex, 1) = "_" THEN "" ELSE CharAt(lex, 1)
            t == SubSeq(lex, 3, 5)
            v == Drop(lex, 6)
        IN  CASE t = "cmt" -> ok("")
              [] t = "nam" ->
                   IF find_index(v, VARIABLES_) # -1
                   THEN ok(p \o ToString(VARIABLES_ADDRESSES[find_index(v, VARIABLES_) + 1]))
                   ELSE IF find_index(v, LABELS) # -1
                   THEN ok(ToString(LABELS_ADDRESSES[find_index(v, LABELS) + 1]))
                   ELSE bad
              [] t = "cmd" -> ok(Opcode(v))
              [] t = "kto" -> ok("")
              [] t = "num" -> ok(p \o v)
              [] t \in {"reg", "opr", "sys", "clr", "mod"} ->
                   IF v \notin DOMAIN SYMBOL_TABLE THEN bad ELSE ok(SYMBOL_TABLE[v])
              [] t = "str" ->
                   IF In(Quote \o v \o Quote, CONSTANTS_)
                   THEN ok(ToString(CONSTANTS_ADDRESSES[
                               find_index(Quote \o v \o Quote, CONSTANTS_) + 1]))
                   ELSE ok("0")
              [] t = "lbl" ->
                   IF pos = "write_1"
                   THEN LET r == py_index(CONSTANTS_ADDRESSES,
                                          find_index("LABEL:" \o v, CONSTANTS_))
                        IN  [val |-> r.val, err |-> FALSE, raised |-> r.raised]
                   ELSE IF find_index(v, LABELS) # -1
                   THEN ok(ToString(LABELS_ADDRESSES[find_index(v, LABELS) + 1]))
                   ELSE ok("0")
              [] t = "var" ->
                   LET idx == find_index(v, VARIABLES_)
                   IN  IF idx = -1 THEN bad
                       ELSE IF CUR_INSTRUCTION_NO < VARIABLES_DECL_ADDRESSES[idx + 1]
                       THEN bad
                       ELSE ok(p \o ToString(VARIABLES_ADDRESSES[idx + 1]))
              [] OTHER -> bad

debug_string(lex, pos) ==
    IF lex = None THEN "<missing>"
    ELSE LET p == CharAt(lex, 1)
             t == SubSeq(lex, 3, 5)
             v == Drop(lex, 6)
         IN  IF t = "str" \/ (t = "num" /\ pos = "write_1") THEN Quote \o v \o Quote
             ELSE IF t \in {"var", "lbl"} THEN t \o ":" \o v
             ELSE IF p = "_" THEN v ELSE p \o v

\* lines 381-386: the loop over the gathered lexemes, from list index i on
RECURSIVE emit(_, _, _, _, _)
emit(lexs, i, instr, debug, errors) ==
    IF i >= Len(lexs)
    THEN [instr |-> instr, debug |-> debug, errors |-> errors, exit |-> FALSE,
          raised |-> FALSE]
    ELSE LET pos == cmd \o "_" \o ToString(i)
             e == eval_lexeme(lexs[i + 1], pos)
             r == IF e.err THEN compilation_error(errors)
                  ELSE [count |-> errors, exit |-> FALSE]
         IN  IF r.exit \/ e.raised
             THEN [instr |-> instr, debug |-> debug, errors |-> r.count,
                   exit |-> r.exit, raised |-> e.raised /\ ~r.exit]
             ELSE emit(lexs, i + 1,
                       IF e.val # "" THEN Append(instr, e.val) ELSE instr,
                       Append(debug, debug_string(lexs[i + 1], pos)), r.count)

\* line 388
final_line(instr, debug) ==
    IF DEBUG_INFO # 0 THEN Join(instr, " ") \o " " \o Join(debug, " ")
    ELSE Join(instr, " ")

\* lines 371-390: the code after the while loop
PostLoop ==
    /\ pc = "post"
    /\ IF count = Unbound
       THEN \* NameError: name 'count' is not defined
            /\ pc' = "crashed"
            /\ exit_status' = 1
            /\ UNCHANGED <<lexemes, LEXEME_INDEX, output, CUR_INSTRUCTION_NO,
                           COMPILATION_ERROR_COUNT>>
       ELSE LET lexs == IF count = 0 THEN <<>> ELSE lexemes
                g == get_next_lexeme(LEXEME_INDEX)
            IN  IF g.lex # None /\ StartsWith(g.lex, "_ cmt")
                THEN /\ lexemes' = lexs
                     /\ LEXEME_INDEX' = g.index
                     /\ pc' = "write"
                     /\ UNCHANGED <<output, CUR_INSTRUCTION_NO, exit_status,
                                    COMPILATION_ERROR_COUNT>>
                ELSE IF g.lex # None /\ g.lex # ""
                THEN LET r == emit(lexs, 0, <<>>, <<"#">>, COMPILATION_ERROR_COUNT)
                     IN  /\ lexemes' = lexs
                         /\ LEXEME_INDEX' = g.index - 1
                         /\ COMPILATION_ERROR_COUNT' = r.errors
                         /\ output' = IF r.exit \/ r.raised THEN output
                                      ELSE Append(output, final_line(r.instr, r.debug))
                         /\ CUR_INSTRUCTION_NO' = IF r.exit \/ r.raised
                                                  THEN CUR_INSTRUCTION_NO
                                                  ELSE CUR_INSTRUCTION_NO + 1
                         /\ pc' = IF r.exit THEN "aborted"
                                  ELSE IF r.raised THEN "crashed" ELSE "write"
                         /\ exit_status' = IF r.exit \/ r.raised THEN 1 ELSE exit_status
                ELSE /\ lexemes' = lexs
                     /\ LEXEME_INDEX' = g.index
                     /\ pc' = "write"
                     /\ UNCHANGED <<output, CUR_INSTRUCTION_NO, exit_status,
                                    COMPILATION_ERROR_COUNT>>
    /\ UNCHANGED <<cmd, count, CUR_FILE, CUR_LINE_NO, image>>
    /\ Pass1Unchanged

(***************************************************************************)
(* Image Writer                                                            *)
(***************************************************************************)
\* lines 394-398: an instruction line as it is written to the image
image_line(line) ==
    LET i == IndexOfChar(line, "#", 1)
    IN  IF i # 0
        THEN PadRight(SubSeq(line, 1, i - 1), 15) \o " # " \o Strip(Drop(line, i), " ")
        ELSE line

\* lines 392-398 and 409-414: the lines of the image file
image_lines(out, evaluated, variables) ==
    [i \in 1..Len(out) |-> image_line(out[i])] \o evaluated
        \o [i \in 1..Len(variables) |-> ""]

\* lines 416-420: the exit status of a run that reaches the end of the script
final_status(errors) == IF errors # 0 THEN errors ELSE 0

\* lines 392-422
WriteImage ==
    /\ pc = "write"
    /\ image' = image_lines(output, CONSTANTS_EVALUATED, VARIABLES_)
    /\ exit_status' = final_status(COMPILATION_ERROR_COUNT)
    /\ pc' = "done"
    /\ UNCHANGED <<COMPILATION_ERROR_COUNT, cmd, count, lexemes, output, LEXEME_INDEX,
                   CUR_INSTRUCTION_NO, CUR_FILE, CUR_LINE_NO>>
    /\ Pass1Unchanged

(***************************************************************************)
(* Source files and specifications                                         *)
(***************************************************************************)
\* the lines a source file of the general specification is made of
SourceLines ==
    { <<>>,
      <<"label", "a">>, <<"label", "b">>,
      <<"var", "x">>,
      <<"cpu_exec">>,
      <<"jump", "label:a">>,
      <<"jump", "to">>,
      <<"copy", "var:x", "to", "5">>,
      <<"copy", "REG_NOPE", "to", "REG_A">>,
      <<"write", "\"hi\"", "to", "5">>,
      <<"write", "OP_UNKNOWN", "to", "5">>,
      <<"write", "\"hi", "to", "5">>,
      <<"foo", "1">> }

Programs == UNION { [1..n -> SourceLines] : n \in 0..MaxLines }

Repeat(line, n) == [i \in 1..n |-> line]

\* source files with many faulty lines: `label` without a name, and
\* repeated declarations of the same label
FaultyPrograms ==
    { Repeat(<<"cpu_exec">>, k) \o Repeat(<<"label">>, i) \o Repeat(<<"label", "a">>, j)
          \o Repeat(<<"cpu_exec">>, m) :
      k \in 0..1, i \in 0..MaxRepeat, j \in 0..MaxRepeat, m \in 0..1 }

InitGlobals ==
    /\ lineno = 0
    /\ pc = "start"
    /\ exit_status = None
    /\ image = NoFile
    /\ COMPILATION_ERROR_COUNT = 0
    /\ LABELS = <<>>
    /\ LABELS_ADDRESSES = <<>>
    /\ CONSTANTS_ = <<>>
    /\ CONSTANTS_EVALUATED = <<>>
    /\ CONSTANTS_ADDRESSES = <<>>
    /\ VARIABLES_ = <<>>
    /\ VARIABLES_ADDRESSES = <<>>
    /\ VARIABLES_DECL_ADDRESSES = <<>>
    /\ PARSED_LEXEMES = <<>>
    /\ NEXT_INSTR_ADDRESS = FIRST_INSTRUCTION_NO
    /\ cmd = ""
    /\ count = Unbound
    /\ lexemes = <<>>
    /\ output = <<>>
    /\ LEXEME_INDEX = -1
    /\ CUR_INSTRUCTION_NO = FIRST_INSTRUCTION_NO - 1
    /\ CUR_FILE = ""
    /\ CUR_LINE_NO = ""

Init == src \in Programs /\ InitGlobals

InitFaulty == src \in FaultyPrograms /\ InitGlobals

Next == OpenFile \/ ScanLine \/ Allocate \/ Pass2Step \/ PostLoop \/ WriteImage

Spec == Init /\ [][Next]_vars

SpecFaulty == InitFaulty /\ [][Next]_vars

(***************************************************************************)
(* Reading the instruction stream.  Every non-empty line puts a "line N"   *)
(* marker into PARSED_LEXEMES; the lexemes a line appends after its marker *)
(* are its group.  Line 211 advances the address counter once per group,   *)
(* so the k-th group sits at address FIRST_INSTRUCTION_NO + k - 1.         *)
(***************************************************************************)
IsMarker(lex) == StartsWith(lex, "file ") \/ StartsWith(lex, "line ")

RECURSIVE SplitGroups(_, _, _)
SplitGroups(pl, cur, acc) ==
    IF pl = <<>> THEN (IF cur = <<>> THEN acc ELSE Append(acc, cur))
    ELSE IF IsMarker(Head(pl))
    THEN SplitGroups(Tail(pl), <<>>, IF cur = <<>> THEN acc ELSE Append(acc, cur))
    ELSE SplitGroups(Tail(pl), Append(cur, Head(pl)), acc)

StreamGroups == SplitGroups(PARSED_LEXEMES, <<>>, <<>>)

GroupAddress(k) == FIRST_INSTRUCTION_NO + k - 1

Kind(lex) == SubSeq(lex, 3, 5)

Payload(lex) == Drop(lex, 6)

IsDeclaration(g, c, name) ==
    Len(g) >= 2 /\ g[1] = "_ cmd " \o c /\ Payload(g[2]) = name

\* a group that is a Source Instruction: a command other than label / var
IsInstruction(g) ==
    StartsWith(g[1], "_ cmd ") /\ Payload(g[1]) \notin {"label", "var"}

\* the operand lexemes of kind k in group g, as positions
OperandsOfKind(g, kinds) ==
    { j \in 2..Len(g) : Kind(g[j]) \in kinds }

\* the fields of an emitted line
RECURSIVE Fields(_, _)
Fields(line, cur) ==
    IF line = "" THEN {cur}
    ELSE IF CharAt(line, 1) = " " THEN {cur} \cup Fields(Drop(line, 1), "")
    ELSE Fields(Drop(line, 1), cur \o CharAt(line, 1))

EmittedWith(value) == \E n \in 1..Len(output) : value \in Fields(output[n], "")

Pass1Done == pc \in {"pass2", "post", "write", "done", "crashed"}

Terminated == pc \in {"done", "aborted", "crashed"}

(***************************************************************************)
(* C1                                                                      *)
(***************************************************************************)
\* the first group that declares the label, and the address of the first
\* Source Instruction after it (the next free address when none follows)
DeclarationGroup(name) ==
    CHOOSE k \in 1..Len(StreamGroups) :
        /\ IsDeclaration(StreamGroups[k], "label", name)
        /\ \A m \in 1..(k - 1) : ~IsDeclaration(StreamGroups[m], "label", name)

NextInstructionAddress(k) ==
    LET later == { m \in (k + 1)..Len(StreamGroups) : IsInstruction(StreamGroups[m]) }
    IN  IF later = {} THEN GroupAddress(Len(StreamGroups) + 1)
        ELSE GroupAddress(CHOOSE m \in later : \A o \in later : m <= o)

\* C1: once Pass 1 is over, the address recorded for every declared label is
\* the address of the next instruction appended after its declaration, or
\* the next free instruction address when no instruction follows it.
C1_LabelIsNextInstruction ==
    Pass1Done =>
        \A i \in 1..Len(LABELS) :
            LABELS_ADDRESSES[i] = NextInstructionAddress(DeclarationGroup(LABELS[i]))

(***************************************************************************)
(* C2                                                                      *)
(***************************************************************************)
\* the var:x operands of declared variables, as <<group, position>>
VarUses ==
    { u \in (1..Len(StreamGroups)) \X (2..5) :
        /\ IsInstruction(StreamGroups[u[1]])
        /\ u[2] \in OperandsOfKind(StreamGroups[u[1]], {"var"})
        /\ In(Payload(StreamGroups[u[1]][u[2]]), VARIABLES_) }

DeclAddressOf(u) ==
    VARIABLES_DECL_ADDRESSES[find_index(Payload(StreamGroups[u[1]][u[2]]), VARIABLES_) + 1]

AllocatedAddressOf(u) ==
    VARIABLES_ADDRESSES[find_index(Payload(StreamGroups[u[1]][u[2]]), VARIABLES_) + 1]

\* C2: at the end of a run every var:x operand of an instruction at or after
\* x's declaration address is emitted resolved to x's allocated address, and
\* every var:x operand of an instruction strictly before it has been
\* reported (so there are at least as many diagnostics as such operands).
C2_VarUseOrder ==
    pc = "done" =>
        /\ \A u \in VarUses :
               GroupAddress(u[1]) >= DeclAddressOf(u)
                   => EmittedWith(ToString(AllocatedAddressOf(u)))
        /\ Cardinality({ u \in VarUses : GroupAddress(u[1]) < DeclAddressOf(u) })
               <= COMPILATION_ERROR_COUNT

(***************************************************************************)
(* C3                                                                      *)
(***************************************************************************)
WriteStrings ==
    { Payload(StreamGroups[k][2]) :
        k \in { m \in 1..Len(StreamGroups) :
                  /\ StreamGroups[m][1] = "_ cmd write"
                  /\ Len(StreamGroups[m]) >= 2
                  /\ Kind(StreamGroups[m][2]) = "str" } }

PoolEntries(text) ==
    { i \in 1..Len(CONSTANTS_) : CONSTANTS_[i] = Quote \o text \o Quote }

\* C3: at the end of a run, for the text of every write instruction: the
\* pool holds exactly one entry for it, the constant region of the image
\* (the lines after the instruction lines) holds the text at that entry's
\* place, and an emitted instruction carries the entry's allocated address.
C3_WriteConstant ==
    pc = "done" =>
        \A text \in WriteStrings :
            /\ Cardinality(PoolEntries(text)) = 1
            /\ \A i \in PoolEntries(text) :
                   /\ Len(output) + i <= Len(image)
                   /\ image[Len(output) + i] = text
                   /\ EmittedWith(ToString(CONSTANTS_ADDRESSES[i]))

(***************************************************************************)
(* C4                                                                      *)
(***************************************************************************)
\* C4: at the end of a run the image has N + C + V lines and the next free
\* address is origin + N + C + V, N being the number of instruction records
\* emitted into the image.
C4_ImageSize ==
    pc = "done" =>
        /\ Len(image) = Len(output) + Len(CONSTANTS_) + Len(VARIABLES_)
        /\ NEXT_INSTR_ADDRESS =
               FIRST_INSTRUCTION_NO + Len(output) + Len(CONSTANTS_) + Len(VARIABLES_)

(***************************************************************************)
(* C5                                                                      *)
(***************************************************************************)
\* the line Pass 1 is about to read
ScanningLine == pc = "pass1" /\ src # <<>> /\ Head(src) # <<>> /\ ~shlex_fails(Head(src))

Redeclares(tokens) ==
    /\ Len(tokens) >= 2
    /\ \/ tokens[1] = "label" /\ In(tokens[2], LABELS)
       \/ tokens[1] = "var" /\ In(tokens[2], VARIABLES_)

\* C5: reading a line that declares an already declared label or variable
\* raises the diagnostic counter by exactly one and leaves the label table,
\* the variable table and their recorded addresses as they were.
C5_DuplicateDeclaration ==
    [][(ScanningLine /\ Redeclares(Head(src))) =>
          /\ COMPILATION_ERROR_COUNT' = COMPILATION_ERROR_COUNT + 1
          /\ LABELS' = LABELS
          /\ LABELS_ADDRESSES' = LABELS_ADDRESSES
          /\ VARIABLES_' = VARIABLES_
          /\ VARIABLES_DECL_ADDRESSES' = VARIABLES_DECL_ADDRESSES]_vars

DeclarationCount(c, name) ==
    Cardinality({ k \in 1..Len(StreamGroups) : IsDeclaration(StreamGroups[k], c, name) })

\* a label line was read twice: one table entry, one diagnostic
C5_Witness ==
    /\ LABELS = <<"a">>
    /\ DeclarationCount("label", "a") = 2
    /\ COMPILATION_ERROR_COUNT = 1

(***************************************************************************)
(* C6                                                                      *)
(***************************************************************************)
SymbolKinds == {"reg", "opr", "sys", "clr", "mod"}

\* operands of symbol kind whose name the Symbol Table lacks
UnknownSymbolOperands ==
    { u \in (1..Len(StreamGroups)) \X (2..5) :
        /\ IsInstruction(StreamGroups[u[1]])
        /\ u[2] \in OperandsOfKind(StreamGroups[u[1]], SymbolKinds)
        /\ Payload(StreamGroups[u[1]][u[2]]) \notin DOMAIN SYMBOL_TABLE }

\* C6: at the end of a run that was not aborted the exit status is the
\* number of diagnostics, every operand naming an unknown symbol has been
\* reported (so there are at least as many diagnostics as such operands),
\* and its instruction is emitted with the operand as 0.
C6_UnknownSymbol ==
    pc = "done" =>
        /\ exit_status = COMPILATION_ERROR_COUNT
        /\ Cardinality(UnknownSymbolOperands) <= COMPILATION_ERROR_COUNT
        /\ UnknownSymbolOperands # {} => EmittedWith("0")

(***************************************************************************)
(* C7                                                                      *)
(***************************************************************************)
\* C7: the diagnostic counter never exceeds 21; the run is aborted exactly
\* when the counter passes the threshold of 20, no image is written in an
\* aborted run, and an aborted run takes no further step.
C7_AbortThreshold ==
    /\ [](/\ COMPILATION_ERROR_COUNT <= ERROR_LIMIT + 1
          /\ (COMPILATION_ERROR_COUNT > ERROR_LIMIT <=> pc = "aborted")
          /\ (pc = "aborted" => image = NoFile /\ exit_status = 1))
    /\ [][pc # "aborted"]_vars

\* the 21st diagnostic ended the run with source lines still unread
C7_Witness ==
    pc = "aborted" /\ COMPILATION_ERROR_COUNT = ERROR_LIMIT + 1 /\ Len(src) >= 2

(***************************************************************************)
(* C8                                                                      *)
(***************************************************************************)
AllAddresses == LABELS_ADDRESSES \o CONSTANTS_ADDRESSES \o VARIABLES_ADDRESSES

\* C8: once the Address Allocator has run, the addresses of all labels,
\* constants and variables are pairwise distinct.
C8_DistinctAddresses ==
    Pass1Done =>
        \A i, j \in 1..Len(AllAddresses) : i # j => AllAddresses[i] # AllAddresses[j]

\* two labels and at least one constant or variable have their addresses
C8_Witness ==
    /\ pc = "done"
    /\ Len(LABELS) = 2
    /\ Len(CONSTANTS_ADDRESSES) + Len(VARIABLES_ADDRESSES) >= 1

(***************************************************************************)
(* C9                                                                      *)
(***************************************************************************)
Tag(lex) == SubSeq(lex, 1, 5)

\* the lexeme sequence matches the rule's regular expression
MatchesRule(rule, parsed) ==
    /\ \/ Len(parsed) = Len(rule.pattern) + 1 /\ parsed[Len(parsed)] = "_ cmt"
       \/ Len(parsed) = Len(rule.pattern) /\ rule.optcmt
    /\ \A i \in 1..Len(rule.pattern) : Tag(parsed[i]) \in rule.pattern[i]

\* the line passes the Grammar Validator: a known command with all of its
\* tokens whose classified lexemes match the command's rule
PassesGrammar(words) ==
    LET tokens == quote_write_value(words)
    IN  /\ is_command(tokens[1])
        /\ Len(tokens) >= lexeme_count(tokens[1])
        /\ tokens[1] \in {"cpu_exec", "DEBUG_ON", "DEBUG_OFF"}
               \/ MatchesRule(INSTRUCTION_RULES(tokens[1]), classify(tokens))

\* C9: in Pass 1 a line that fails grammar validation (every line with an
\* unknown command included) raises the diagnostic counter, appends nothing
\* but its line marker and leaves the address counter alone; the address
\* counter moves, by exactly one, only for a line that passes validation.
C9_DropInvalidLine ==
    [][ScanningLine =>
          /\ ~PassesGrammar(Head(src)) =>
                 /\ COMPILATION_ERROR_COUNT' > COMPILATION_ERROR_COUNT
                 /\ Len(PARSED_LEXEMES') = Len(PARSED_LEXEMES) + 1
                 /\ NEXT_INSTR_ADDRESS' = NEXT_INSTR_ADDRESS
          /\ NEXT_INSTR_ADDRESS' # NEXT_INSTR_ADDRESS =>
                 /\ NEXT_INSTR_ADDRESS' = NEXT_INSTR_ADDRESS + 1
                 /\ PassesGrammar(Head(src))]_vars

(***************************************************************************)
(* C10                                                                     *)
(***************************************************************************)
\* C10: a run ends either with the image written after all four stages, or
\* by the diagnostic-threshold abort.
C10_TwoEndings ==
    Terminated =>
        \/ pc = "done" /\ image # NoFile
        \/ pc = "aborted" /\ COMPILATION_ERROR_COUNT > ERROR_LIMIT

====
